---- MODULE Spec2Model ----
(***************************************************************************)
(* Model of picrust/bayestraits.py:                                        *)
(*   - make_bayestraits_script / get_bt_addmrca_commands, the generator of *)
(*     the BayesTraits control script (specification SpecGen);             *)
(*   - parse_reconstruction_output, the parser of the BayesTraits log      *)
(*     (specification SpecParse).                                          *)
(*                                                                         *)
(* Text is modelled as sequences of tokens.  A script line is a sequence   *)
(* of tokens in which the newline character is the token NL and the        *)
(* comment mark is the token "#", so that "ends with one newline" and      *)
(* "begins with #" are computed from the text the code builds.  A log line *)
(* is the sequence of its tab-separated fields, and a header field is the  *)
(* sequence of its tokens with "-", "(" and ")" as tokens of their own.    *)
(***************************************************************************)
EXTENDS Integers, Sequences, FiniteSets, TLC

VARIABLES
    \* ---- script generator ----
    tree,              \* the PhyloNode tree handed to make_bayestraits_script
    translation_dict,  \* tip name -> BayesTraits name
    method,            \* arguments of the last call
    analysis_method,
    comments,
    single_rate,
    gen,               \* outcome of the last call: [state, error, lines]
    \* ---- output parser ----
    pc,                \* "running", "returned" or "raised"
    header_parsed,
    field_mapping,     \* key -> column index (0-based)
    all_nodes,         \* node names in order of first appearance
    all_characters,    \* character ids in order of first appearance
    states_by_character, \* character id -> states in order of first appearance
    per_tree_results,  \* tree number -> likelihood
    line,              \* the line the loop holds (sequence of fields)
    nread,             \* number of lines taken from the input so far
    result             \* the returned value, or the error raised

genvars == <<tree, translation_dict, method, analysis_method, comments,
             single_rate, gen>>
schema == <<field_mapping, all_nodes, all_characters, states_by_character>>
parsevars == <<pc, header_parsed, schema, per_tree_results, line, nread, result>>
vars == <<genvars, parsevars>>

----------------------------------------------------------------------------
(* Bounds *)

MaxNodes == 6          \* generic trees have at most this many nodes
MaxHeaderFields == 3   \* node fields of a header line
MaxRowFields == 3      \* data fields after the tree number and the likelihood
MaxLines == 3          \* lines the parser is given

----------------------------------------------------------------------------
(* Generic helpers on sequences *)

NL == "\n"

RECURSIVE Flatten(_)
Flatten(ss) == IF ss = <<>> THEN <<>> ELSE Head(ss) \o Flatten(Tail(ss))

\* sep.join(items), items being tokens
RECURSIVE Join(_, _)
Join(items, sep) ==
    IF items = <<>> THEN <<>>
    ELSE IF Len(items) = 1 THEN <<items[1]>>
    ELSE <<items[1], sep>> \o Join(Tail(items), sep)

Range(s) == {s[i] : i \in DOMAIN s}

Count(s, x) == Cardinality({i \in DOMAIN s : s[i] = x})

----------------------------------------------------------------------------
(* The tree.  A tree is [parent, name]: nodes are 1..Len(parent), node 1 is *)
(* the root (parent 0), the children of a node are ordered by index.       *)

Nodes(t) == 1..Len(t.parent)

Children(t, n) ==
    SelectSeq([i \in 1..Len(t.parent) |-> i], LAMBDA i : t.parent[i] = n)

isTip(t, n) == Children(t, n) = <<>>

\* the tips at or below n, left to right
RECURSIVE Leaves(_, _)
RECURSIVE LeavesOfAll(_, _)
Leaves(t, n) ==
    IF isTip(t, n) THEN <<n>>
    ELSE LeavesOfAll(t, Children(t, n))

LeavesOfAll(t, ns) ==
    IF ns = <<>> THEN <<>> ELSE Leaves(t, Head(ns)) \o LeavesOfAll(t, Tail(ns))

\* node.iterTips(): the tips below the node; nothing when the node is a tip
iterTips(t, n) == IF isTip(t, n) THEN <<>> ELSE Leaves(t, n)

\* runs of tip and non-tip children
RECURSIVE Runs(_, _)
Runs(t, cs) ==
    IF cs = <<>> THEN <<>>
    ELSE LET rest == Runs(t, Tail(cs))
         IN  IF rest # <<>> /\ isTip(t, Head(rest[1])) = isTip(t, Head(cs))
             THEN <<<<Head(cs)>> \o rest[1]>> \o Tail(rest)
             ELSE <<<<Head(cs)>>>> \o rest

\* node.childGroups(), each group given as the entries that iterating it
\* yields.  With one child the library returns [child], and iterating a
\* node yields its children.
childGroups(t, n) ==
    LET cs == Children(t, n)
    IN  IF cs = <<>> THEN <<>>
        ELSE IF Len(cs) = 1 THEN <<Children(t, cs[1])>>
        ELSE Runs(t, cs)

----------------------------------------------------------------------------
(* get_bt_addmrca_commands *)

NoError == "none"

\* translation_dict.get(s, s) followed by str(): the dictionary maps tip
\* names to integers (or is empty)
Translate(d, s) == IF s \in DOMAIN d THEN ToString(d[s]) ELSE s

\* "parent_of_%s" % tip.Name
anc_node_name(t, tip) == "parent_of_" \o t.name[tip]

\* the names collected from the child groups of the tip's parent
NamesOf(t, ns) == [k \in 1..Len(ns) |-> t.name[ns[k]]]

\* an internal entry stood for by its first tip only
EntryNames_first_tip(t, entry) ==
    IF isTip(t, entry) THEN <<t.name[entry]>>
    ELSE <<t.name[Head(iterTips(t, entry))]>>

EntryNames(t, entry) ==
    IF isTip(t, entry) THEN <<t.name[entry]>>
    ELSE NamesOf(t, iterTips(t, entry))

RECURSIVE GroupNames(_, _)
GroupNames(t, group) ==
    IF group = <<>> THEN <<>>
    ELSE EntryNames(t, Head(group)) \o GroupNames(t, Tail(group))

RECURSIVE GroupsNames(_, _)
GroupsNames(t, groups) ==
    IF groups = <<>> THEN <<>>
    ELSE GroupNames(t, Head(groups)) \o GroupsNames(t, Tail(groups))

\* the tip itself left out of the list
sibling_names_without_tip(t, tip) ==
    SelectSeq(GroupsNames(t, childGroups(t, t.parent[tip])),
              LAMBDA s : s # t.name[tip])

sibling_names(t, tip) == GroupsNames(t, childGroups(t, t.parent[tip]))

TranslateAll(d, names) == [k \in 1..Len(names) |-> Translate(d, names[k])]

translated_sibling_names(t, d, tip) == TranslateAll(d, sibling_names(t, tip))

\* cmd_template % (anc_node_name, " ".join(...)): "AddMRCA %s %s\n"
new_command(anc, params) ==
    <<"AddMRCA", " ", anc, " ">> \o Join(params, " ") \o <<NL>>

\* the loop over tree.iterTips(), from the commands built so far
RECURSIVE TipLoop(_, _, _, _)
RECURSIVE TipStep(_, _, _, _, _)
TipLoop(t, d, tips, commands) ==
    IF tips = <<>> THEN [error |-> NoError, commands |-> commands]
    ELSE TipStep(t, d, tips, commands, translated_sibling_names(t, d, Head(tips)))

TipStep(t, d, tips, commands, translated) ==
    IF translated = <<>>
    THEN [error |-> "No sibling names found!", commands |-> <<>>]
    ELSE TipLoop(t, d, Tail(tips),
                 Append(commands,
                        new_command(anc_node_name(t, Head(tips)), translated)))

\* one command per distinct parent instead of one per tip
get_bt_addmrca_commands_per_parent(t, d) ==
    LET tips == iterTips(t, 1)
        firsts == SelectSeq(tips, LAMBDA n :
                     \A m \in Range(tips) : t.parent[m] = t.parent[n] => m >= n)
    IN  TipLoop(t, d, firsts, <<<<"#", "Add nodes to analyze", NL>>>>)

get_bt_addmrca_commands(t, d) ==
    TipLoop(t, d, iterTips(t, 1), <<<<"#", "Add nodes to analyze", NL>>>>)

----------------------------------------------------------------------------
(* make_bayestraits_script *)

Methods == {"multistate", "discrete_independent", "discrete_dependent",
            "continuous_random_walk", "continuous_directional",
            "continuous_regression"}

AnalysisMethods == {"ml", "mcmc"}

header == <<"#", "BayesTraits script (autogenerated)">>

\* a triple-quoted string: seven text lines in one element
method_menu ==
    <<"#", "Select method.  methods are:", NL,
      "    ", "#", "1)      MultiState. ", NL,
      "    ", "#", "2)      Discrete: Independent model ", NL,
      "    ", "#", "3)      Discrete: Dependent model ", NL,
      "    ", "#", "4)      Continuous: Random Walk (Model A) ", NL,
      "    ", "#", "5)      Continuous: Directional (Model B) ", NL,
      "    ", "#", "6)      Continuous: Regression ">>

analysis_method_menu ==
    <<"#", "Select the analysis method to use. ", NL,
      "        ", "#", "1)      Maximum Likelihood. ", NL,
      "        ", "#", "2)      MCMC">>

method_to_number ==
    [m \in Methods |->
        CASE m = "multistate" -> "1"
          [] m = "discrete_independent" -> "2"
          [] m = "discrete_dependent" -> "3"
          [] m = "continuous_random_walk" -> "4"
          [] m = "continuous_directional" -> "5"
          [] m = "continuous_regression" -> "6"]

\* a lookup that falls back to the first menu entry
method_response_default(m) ==
    IF m \in DOMAIN method_to_number THEN method_to_number[m] ELSE "1"

\* method_to_number.get(method, "method not supported")
method_response(m) ==
    IF m \in DOMAIN method_to_number THEN method_to_number[m]
    ELSE "method not supported"

analysis_method_to_number ==
    [a \in AnalysisMethods |-> IF a = "ml" THEN "1" ELSE "2"]

analysis_method_response(a) ==
    IF a \in DOMAIN analysis_method_to_number THEN analysis_method_to_number[a]
    ELSE "analysis method not supported"

\* [l + "\n" for l in script_lines]
AddNewlines(ls) == [k \in 1..Len(ls) |-> Append(ls[k], NL)]

\* "run" appended before the AddMRCA commands instead of after them
Finish_run_first(l7, add_mrca_cmds) ==
    IF add_mrca_cmds.error # NoError
    THEN [state |-> "raised", error |-> add_mrca_cmds.error, lines |-> <<>>]
    ELSE [state |-> "returned", error |-> NoError,
          lines |-> AddNewlines(Append(l7, <<"run">>) \o add_mrca_cmds.commands)]

\* the tail of the function, from the AddMRCA commands on
Finish(l7, add_mrca_cmds) ==
    IF add_mrca_cmds.error # NoError
    THEN [state |-> "raised", error |-> add_mrca_cmds.error, lines |-> <<>>]
    ELSE [state |-> "returned", error |-> NoError,
          lines |-> AddNewlines(Append(l7 \o add_mrca_cmds.commands, <<"run">>))]

Raised(msg) == [state |-> "raised", error |-> msg, lines |-> <<>>]

make_bayestraits_script(t, d, m, a, c, sr) ==
    LET l1 == IF c THEN <<header, method_menu>> ELSE <<>>
    IN  IF method_response(m) = "method not supported"
        THEN Raised(method_response(m))
        ELSE
    LET l2 == Append(l1, <<method_response(m)>>)
        l3 == IF c THEN Append(l2, analysis_method_menu) ELSE l2
    IN  IF analysis_method_response(a) = "analysis method not supported"
        THEN Raised(analysis_method_response(a))
        ELSE
    LET l4 == Append(l3, <<analysis_method_response(a)>>)
        l5 == IF sr /\ c THEN Append(l4, <<"#", "Restrict to a single rate">>)
              ELSE l4
        l6 == IF sr THEN Append(l5, <<"RestrictAll q01">>) ELSE l5
        l7 == IF c THEN Append(l6, <<"#", "Reconstruct parent nodes for each tip">>)
              ELSE l6
    IN  Finish(l7, get_bt_addmrca_commands(t, d))


----------------------------------------------------------------------------
(* Inputs of the script generator *)

NodeNames == <<"root", "E", "F", "A", "B", "C", "D", "G", "H">>

\* parent vectors of the ordered trees with n nodes
RECURSIVE ParentVectors(_)
ParentVectors(n) ==
    IF n = 1 THEN {<<0>>}
    ELSE {Append(p, k) : p \in ParentVectors(n - 1), k \in 1..(n - 1)}

GenericTrees ==
    {[parent |-> p, name |-> SubSeq(NodeNames, 1, Len(p))] :
        p \in UNION {ParentVectors(n) : n \in 1..MaxNodes}}

\* ((A,B)E,(C,D)F)root
SimpleTree ==
    [parent |-> <<0, 1, 1, 2, 2, 3, 3>>,
     name |-> <<"root", "E", "F", "A", "B", "C", "D">>]

\* (A,B,B_prime)E
PolytomyTree ==
    [parent |-> <<0, 1, 1, 1>>, name |-> <<"E", "A", "B", "B_prime">>]

\* ((A,B,B_prime)E,(C,D)F)root
SimplePolytomyTree ==
    [parent |-> <<0, 1, 1, 2, 2, 2, 3, 3>>,
     name |-> <<"root", "E", "F", "A", "B", "B_prime", "C", "D">>]

\* (A,A,B)E: two tips that carry the same name
DuplicateNameTree ==
    [parent |-> <<0, 1, 1, 1>>, name |-> <<"E", "A", "A", "B">>]

Trees ==
    GenericTrees \cup
        {SimpleTree, PolytomyTree, SimplePolytomyTree, DuplicateNameTree}

\* main(): translation_dict[tip.Name] = i for i, tip in enumerate(iterTips);
\* a later tip of the same name overwrites the entry of an earlier one
EnumerationDict(t) ==
    LET tips == iterTips(t, 1)
    IN  [nm \in {t.name[tips[k]] : k \in DOMAIN tips} |->
            (CHOOSE k \in DOMAIN tips :
                /\ t.name[tips[k]] = nm
                /\ \A j \in DOMAIN tips : t.name[tips[j]] = nm => j <= k) - 1]

\* a dictionary that knows the first tip only
PartialDict(t) ==
    LET tips == iterTips(t, 1)
    IN  [nm \in {t.name[tips[k]] : k \in DOMAIN tips \cap {1}} |-> 0]

EmptyDict == [nm \in {} |-> 0]

TranslationDicts(t) == {EmptyDict, EnumerationDict(t), PartialDict(t)}

MethodInputs == Methods \cup {"bogus"}
AnalysisMethodInputs == AnalysisMethods \cup {"bogus"}


----------------------------------------------------------------------------
(* Text helpers of the parser *)

TAB == "\t"

Whitespace == {" ", NL, TAB}

\* s.split(sep) on tokens: always at least one part
RECURSIVE SplitOn(_, _)
SplitOn(toks, sep) ==
    IF toks = <<>> THEN <<<<>>>>
    ELSE LET rest == SplitOn(Tail(toks), sep)
         IN  IF Head(toks) = sep THEN <<<<>>>> \o rest
             ELSE <<<<Head(toks)>> \o Head(rest)>> \o Tail(rest)

RECURSIVE LStrip(_)
LStrip(toks) ==
    IF toks # <<>> /\ Head(toks) \in Whitespace THEN LStrip(Tail(toks)) ELSE toks

RECURSIVE RStrip(_)
RStrip(toks) ==
    IF toks # <<>> /\ toks[Len(toks)] \in Whitespace
    THEN RStrip(SubSeq(toks, 1, Len(toks) - 1)) ELSE toks

\* s.strip()
Strip(toks) == RStrip(LStrip(toks))

\* the string a token sequence spells
RECURSIVE Text(_)
Text(toks) == IF toks = <<>> THEN "" ELSE Head(toks) \o Text(Tail(toks))

\* int(text): the integer literals of the inputs; anything else is a ValueError
IntTexts == {"1", "2", "10"}
IntOf(s) == CASE s = "1" -> 1 [] s = "2" -> 2 [] s = "10" -> 10

\* float(text), in tenths; anything else is a ValueError
FloatTexts == {"0", "0.3", "0.7", "-5.2"} \cup IntTexts
FloatOf(s) ==
    CASE s = "0" -> 0 [] s = "0.3" -> 3 [] s = "0.7" -> 7 [] s = "-5.2" -> 0 - 52
      [] s \in IntTexts -> 10 * IntOf(s)

\* str(float), from tenths
FloatStr(v) ==
    IF v < 0 THEN "-" \o ToString((0 - v) \div 10) \o "." \o ToString((0 - v) % 10)
    ELSE ToString(v \div 10) \o "." \o ToString(v % 10)

\* the order of Python's string comparison on the strings that get sorted
LexOrder == <<"0", "1", "parent_of_A", "parent_of_B">>
LexRank(s) == CHOOSE i \in DOMAIN LexOrder : LexOrder[i] = s
StrLess(a, b) == LexRank(a) < LexRank(b)
IntLess(a, b) == a < b

\* sorted(xs) for a list of strings without repeated elements: the element
\* at position i is the one with i - 1 smaller elements
SortedStrings(xs) ==
    [i \in 1..Len(xs) |->
        CHOOSE x \in Range(xs) :
            Cardinality({y \in Range(xs) : StrLess(y, x)}) = i - 1]

\* sorted(xs) for a list of integers without repeated elements
SortedInts(xs) ==
    [i \in 1..Len(xs) |->
        CHOOSE x \in Range(xs) :
            Cardinality({y \in Range(xs) : IntLess(y, x)}) = i - 1]

\* the order of first appearance, kept as it is
sorted_nodes_unsorted(nodes) == nodes
sorted_nodes(nodes) == SortedStrings(nodes)

sorted_characters(chars) == SortedInts(chars)

sorted_states(states) == SortedStrings(states)

\* d[k] = v on a dictionary
Put(d, k, v) == [x \in DOMAIN d \cup {k} |-> IF x = k THEN v ELSE d[x]]

\* xs.append(x) unless x in xs
AppendNew(xs, x) == IF x \in Range(xs) THEN xs ELSE Append(xs, x)

----------------------------------------------------------------------------
(* parse_reconstruction_output: the header *)

NoResult == [kind |-> "none"]
ErrorResult(e) == [kind |-> "error", error |-> e]

\* not line
IsBlank(l) == l = <<<<>>>>

\* line.startswith("Tree No\tLh")
StartsWithHeader(l) ==
    /\ Len(l) >= 2
    /\ l[1] = <<"Tree No">>
    /\ l[2] # <<>>
    /\ l[2][1] = "Lh"

\* "%s_%s_%s" % (node, character, state)
FieldKey(node, character, state) ==
    node \o "_" \o ToString(character) \o "_" \o state

\* a header field of the node-character-state form: the parts it is split
\* into, or the error the split raises
ParseField(field) ==
    LET parts == SplitOn(field, "-")
    IN  IF Len(parts) # 3 THEN [error |-> "ValueError"]
        ELSE IF Len(SplitOn(parts[2], "(")) < 2 THEN [error |-> "IndexError"]
        ELSE IF Text(SplitOn(SplitOn(parts[2], "(")[2], ")")[1]) \notin IntTexts
             THEN [error |-> "ValueError"]
        ELSE IF Len(SplitOn(parts[3], "(")) < 2 THEN [error |-> "IndexError"]
        ELSE [error |-> NoError,
              node |-> Text(Strip(parts[1])),
              character |-> IntOf(Text(SplitOn(SplitOn(parts[2], "(")[2], ")")[1])),
              state |-> Text(SplitOn(SplitOn(parts[3], "(")[2], ")")[1])]

\* the schema after a parsed field at column i (0-based)
WithField(sc, f, i) ==
    [error |-> NoError,
     field_mapping |-> Put(sc.field_mapping,
                           FieldKey(f.node, f.character, f.state), i),
     all_nodes |-> AppendNew(sc.all_nodes, f.node),
     all_characters |-> AppendNew(sc.all_characters, f.character),
     states_by_character |->
        Put(sc.states_by_character, f.character,
            AppendNew(IF f.character \in DOMAIN sc.states_by_character
                      THEN sc.states_by_character[f.character] ELSE <<>>,
                      f.state))]

\* the body of the loop over enumerate(fields)
HeaderField(sc, field, i) ==
    IF field = <<"Tree No">>
    THEN [sc EXCEPT !.field_mapping = Put(@, "tree_number", i)]
    ELSE IF field = <<"Lh">>
    THEN [sc EXCEPT !.field_mapping = Put(@, "likelihood", i)]
    ELSE IF field # <<>> /\ field[1] = "q"
    THEN [sc EXCEPT !.field_mapping = Put(@, "rate_" \o Text(field), i)]
    ELSE IF Strip(field) = <<>> THEN sc
    ELSE IF ParseField(field).error # NoError
         THEN [sc EXCEPT !.error = ParseField(field).error]
    ELSE WithField(sc, ParseField(field), i)

RECURSIVE HeaderLoop(_, _, _)
HeaderLoop(sc, fields, i) ==
    IF sc.error # NoError \/ i >= Len(fields) THEN sc
    ELSE HeaderLoop(HeaderField(sc, fields[i + 1], i), fields, i + 1)

\* the schema inferred from a header line; field_mapping starts empty, the
\* lists are those of the call
InferSchema(fields, nodes, chars, sbc) ==
    HeaderLoop([error |-> NoError, field_mapping |-> <<>>, all_nodes |-> nodes,
                all_characters |-> chars, states_by_character |-> sbc],
               fields, 0)

----------------------------------------------------------------------------
(* parse_reconstruction_output: a data row *)

\* "_".join(map(str, [node, character, state]))
data_desired(node, character, state) ==
    node \o "_" \o ToString(character) \o "_" \o state

\* a tie replaces the best state so far
Better_or_equal(prob, best) == prob >= best

\* float(prob) > ml_state[1]
Better(prob, best) == prob > best

\* ml_state = (None, 0.0)
InitialMlState == [found |-> FALSE, state |-> "None", prob |-> 0]

\* the loop over sorted(states_by_character[character])
RECURSIVE StateLoop(_, _, _, _, _, _)
RECURSIVE StateStep(_, _, _, _, _, _, _)
StateLoop(data_fields, fm, node, character, states, ml_state) ==
    IF states = <<>> THEN [error |-> NoError, ml_state |-> ml_state]
    ELSE IF data_desired(node, character, Head(states)) \notin DOMAIN fm
         THEN [error |-> "KeyError"]
    ELSE IF fm[data_desired(node, character, Head(states))] >= Len(data_fields)
         THEN [error |-> "IndexError"]
    ELSE StateStep(data_fields, fm, node, character, states, ml_state,
             Text(data_fields[fm[data_desired(node, character, Head(states))] + 1]))

StateStep(data_fields, fm, node, character, states, ml_state, prob) ==
    IF prob \notin FloatTexts THEN [error |-> "ValueError"]
    ELSE StateLoop(data_fields, fm, node, character, Tail(states),
             IF Better(FloatOf(prob), ml_state.prob)
             THEN [found |-> TRUE, state |-> Head(states), prob |-> FloatOf(prob)]
             ELSE ml_state)

\* "|".join(map(str, [ml_state[0], ml_state[1]]))
CallText(ml_state) == <<ml_state.state, "|", FloatStr(ml_state.prob)>>

\* the loop over the sorted characters, for one node
RECURSIVE CharacterLoop(_, _, _, _, _, _)
RECURSIVE CharacterStep(_, _, _, _, _, _, _)
CharacterLoop(data_fields, fm, sbc, node, chars, curr_fields) ==
    IF chars = <<>> THEN [error |-> NoError, curr_fields |-> curr_fields]
    ELSE CharacterStep(data_fields, fm, sbc, node, chars, curr_fields,
             StateLoop(data_fields, fm, node, Head(chars),
                       sorted_states(sbc[Head(chars)]), InitialMlState))

CharacterStep(data_fields, fm, sbc, node, chars, curr_fields, call) ==
    IF call.error # NoError THEN [error |-> call.error]
    ELSE CharacterLoop(data_fields, fm, sbc, node, Tail(chars),
                       Append(curr_fields, CallText(call.ml_state)))

\* "\t".join(cells), the cells being token sequences
RECURSIVE JoinCells(_, _)
JoinCells(cells, sep) ==
    IF cells = <<>> THEN <<>>
    ELSE IF Len(cells) = 1 THEN cells[1]
    ELSE cells[1] \o <<sep>> \o JoinCells(Tail(cells), sep)

\* the loop over sorted(all_nodes)
RECURSIVE NodeLoop(_, _, _, _, _, _)
RECURSIVE NodeStep(_, _, _, _, _, _, _)
NodeLoop(data_fields, fm, sbc, nodes, chars, output_lines) ==
    IF nodes = <<>> THEN [error |-> NoError, output_lines |-> output_lines]
    ELSE NodeStep(data_fields, fm, sbc, nodes, chars, output_lines,
             CharacterLoop(data_fields, fm, sbc, Head(nodes), chars,
                           <<<<Head(nodes)>>>>))

NodeStep(data_fields, fm, sbc, nodes, chars, output_lines, cur) ==
    IF cur.error # NoError THEN [error |-> cur.error]
    ELSE NodeLoop(data_fields, fm, sbc, Tail(nodes), chars,
                  Append(output_lines, JoinCells(cur.curr_fields, TAB)))

\* "#" + "\t".join(["Trait"] + map(str, sorted(all_characters)))
output_header(chars) ==
    <<"#">> \o Join(<<"Trait">> \o [k \in 1..Len(chars) |-> ToString(chars[k])], TAB)

\* [l + "\n" for l in output_lines]
TableLines(output_lines) ==
    [k \in 1..Len(output_lines) |-> Append(output_lines[k], NL)]

\* the table of a data row
MakeTable(data_fields, fm, nodes, chars, sbc) ==
    NodeLoop(data_fields, fm, sbc, sorted_nodes(nodes), sorted_characters(chars),
             <<output_header(sorted_characters(chars))>>)

\* the tree number and the likelihood of a data row: the error raised, or
\* the updated per_tree_results
RowBookkeeping(data_fields, fm, ptr) ==
    IF fm["tree_number"] >= Len(data_fields) \/ fm["likelihood"] >= Len(data_fields)
    THEN [error |-> "IndexError", per_tree_results |-> ptr]
    ELSE IF \/ Text(data_fields[fm["likelihood"] + 1]) \notin FloatTexts
            \/ Text(data_fields[fm["tree_number"] + 1]) \notin IntTexts
    THEN [error |-> "ValueError", per_tree_results |-> ptr]
    ELSE [error |-> NoError,
          per_tree_results |->
             Put(ptr, IntOf(Text(data_fields[fm["tree_number"] + 1])),
                 [likelihood |-> FloatOf(Text(data_fields[fm["likelihood"] + 1]))])]

----------------------------------------------------------------------------
(* parse_reconstruction_output: the loop over the lines *)

\* not header_parsed and not line.startswith(start_of_header_line)
SkipsLine(hp, l) == ~hp /\ ~StartsWithHeader(l)

\* any line with the header prefix is taken as a header
InfersHeader_on_prefix(hp, l) == StartsWithHeader(l)

\* if not header_parsed:
InfersHeader(hp, l) == ~hp

\* the loop goes on after a data row
PcAfterRow_continue == "running"

\* return [l + "\n" for l in output_lines]
PcAfterRow == "returned"

----------------------------------------------------------------------------
(* Inputs of the parser *)

TripleField(node, character, state) ==
    <<node, "-", "Character", "(", character, ")", "-", "State", "(", state, ")">>

WellFormedFields ==
    {TripleField("parent_of_A", "2", "0"), TripleField("parent_of_A", "2", "1"),
     TripleField("parent_of_B", "2", "0"), TripleField("parent_of_A", "10", "0")}

\* "malformed_field_name": one part
OnePartField == <<"malformed_field_name">>

\* "parent_of_A-Character-State(0)": no parenthesis in the character part
NoParenField == <<"parent_of_A", "-", "Character", "-", "State", "(", "0", ")">>

\* "parent_of_B-Character(2-State(1": the parentheses are not closed
UnclosedField ==
    <<"parent_of_B", "-", "Character", "(", "2", "-", "State", "(", "1">>

MalformedFields == {OnePartField, NoParenField, UnclosedField}

RateField == <<"q", "01">>

HeaderFieldInputs == WellFormedFields \cup MalformedFields \cup {<<" ">>}

\* the sequences without repetition over S, of length at most n
RECURSIVE InjSeqs(_, _)
InjSeqs(S, n) ==
    IF n = 0 THEN {<<>>}
    ELSE InjSeqs(S, n - 1) \cup
         {q \in {Append(r, x) : r \in {r \in InjSeqs(S, n - 1) : Len(r) = n - 1},
                                 x \in S} :
             Cardinality(Range(q)) = Len(q)}

\* "Tree No", "Lh", the rate column or none, then the node fields
HeaderLines ==
    {<<<<"Tree No">>, <<"Lh">>>> \o rates \o body :
        rates \in {<<>>, <<RateField>>},
        body \in InjSeqs(HeaderFieldInputs, MaxHeaderFields)}

\* header lines that may come again after the header
RepeatedHeaderLines ==
    {<<<<"Tree No">>, <<"Lh">>>>,
     <<<<"Tree No">>, <<"Lh">>, RateField,
       TripleField("parent_of_A", "2", "0"), TripleField("parent_of_A", "2", "1")>>}

ProbInputs == {<<"0">>, <<"0.3">>, <<"0.7">>}

RECURSIVE SeqsUpTo(_, _)
SeqsUpTo(S, n) ==
    IF n = 0 THEN {<<>>}
    ELSE SeqsUpTo(S, n - 1) \cup
         {Append(q, x) : q \in {r \in SeqsUpTo(S, n - 1) : Len(r) = n - 1}, x \in S}

DataRows ==
    {<<<<"1">>, <<"-5.2">>>> \o probs : probs \in SeqsUpTo(ProbInputs, MaxRowFields)}
        \cup {<<<<"1">>>>}

BlankLine == <<<<>>>>

\* the empty line, a line of one space, a line of one newline, a text line
OtherLines == {BlankLine, <<<<" ">>>>, <<<<NL>>>>, <<<<"Tree information">>>>}

\* the lines the input may hold next
LinesBeforeHeader ==
    OtherLines \cup HeaderLines \cup {<<<<"1">>, <<"-5.2">>, <<"0.7">>>>}
LinesAfterHeader == OtherLines \cup RepeatedHeaderLines \cup DataRows
InputLines(hp) == IF hp THEN LinesAfterHeader ELSE LinesBeforeHeader

----------------------------------------------------------------------------
(* Inputs and state of the parser before the first line is read *)

ParseInit ==
    /\ pc = "running"
    /\ header_parsed = FALSE
    /\ field_mapping = <<>>
    /\ all_nodes = <<>>
    /\ all_characters = <<>>
    /\ states_by_character = <<>>
    /\ per_tree_results = <<>>
    /\ line = <<>>
    /\ nread = 0
    /\ result = NoResult

----------------------------------------------------------------------------
(* Specification of the script generator *)

GenInit ==
    /\ tree \in Trees
    /\ translation_dict \in TranslationDicts(tree)
    /\ method = "multistate"
    /\ analysis_method = "ml"
    /\ comments = TRUE
    /\ single_rate = FALSE
    /\ gen = [state |-> "idle", error |-> NoError, lines |-> <<>>]
    /\ ParseInit

\* the call of make_bayestraits_script on the tree
Generate ==
    /\ gen.state = "idle"
    /\ \E m \in MethodInputs, a \in AnalysisMethodInputs,
          c \in BOOLEAN, sr \in BOOLEAN :
           /\ method' = m
           /\ analysis_method' = a
           /\ comments' = c
           /\ single_rate' = sr
           /\ gen' = make_bayestraits_script(tree, translation_dict, m, a, c, sr)
           /\ UNCHANGED <<tree, translation_dict, parsevars>>

GenNext == Generate

SpecGen == GenInit /\ [][GenNext]_vars


----------------------------------------------------------------------------
(* Specification of the parser: one action per way through the loop body *)

\* a blank line, or a line before the header that is not the header
SkipLine ==
    /\ pc = "running"
    /\ nread < MaxLines
    /\ \E l \in InputLines(header_parsed) :
          /\ IsBlank(l) \/ SkipsLine(header_parsed, l)
          /\ line' = l
          /\ nread' = nread + 1
          /\ UNCHANGED <<pc, header_parsed, schema, per_tree_results, result>>
    /\ UNCHANGED genvars

\* the state after the loop over the header fields
HeaderEffect(sc) ==
    /\ field_mapping' = sc.field_mapping
    /\ all_nodes' = sc.all_nodes
    /\ all_characters' = sc.all_characters
    /\ states_by_character' = sc.states_by_character
    /\ IF sc.error # NoError
       THEN /\ pc' = "raised"
            /\ result' = ErrorResult(sc.error)
            /\ UNCHANGED header_parsed
       ELSE /\ header_parsed' = TRUE
            /\ UNCHANGED <<pc, result>>

\* the header line: the schema is inferred, or the inference raises
ParseHeader ==
    /\ pc = "running"
    /\ nread < MaxLines
    /\ \E l \in InputLines(header_parsed) :
          /\ ~IsBlank(l)
          /\ ~SkipsLine(header_parsed, l)
          /\ InfersHeader(header_parsed, l)
          /\ line' = l
          /\ nread' = nread + 1
          /\ HeaderEffect(InferSchema(l, all_nodes, all_characters,
                                      states_by_character))
          /\ UNCHANGED per_tree_results
    /\ UNCHANGED genvars

\* the state after the body of the loop for a data row
RowEffect(book, table) ==
    /\ per_tree_results' = book.per_tree_results
    /\ IF book.error # NoError
       THEN /\ pc' = "raised"
            /\ result' = ErrorResult(book.error)
       ELSE IF table.error # NoError
       THEN /\ pc' = "raised"
            /\ result' = ErrorResult(table.error)
       ELSE /\ pc' = PcAfterRow
            /\ result' = [kind |-> "table",
                          lines |-> TableLines(table.output_lines)]

\* a line after the header: it is reduced and the table returned, or the
\* reduction raises
ReduceRow ==
    /\ pc = "running"
    /\ nread < MaxLines
    /\ \E l \in InputLines(header_parsed) :
          /\ ~IsBlank(l)
          /\ ~SkipsLine(header_parsed, l)
          /\ ~InfersHeader(header_parsed, l)
          /\ line' = l
          /\ nread' = nread + 1
          /\ RowEffect(RowBookkeeping(l, field_mapping, per_tree_results),
                       MakeTable(l, field_mapping, all_nodes, all_characters,
                                 states_by_character))
          /\ UNCHANGED <<header_parsed, schema>>
    /\ UNCHANGED genvars

\* the lines are exhausted: return per_tree_results
EndOfInput ==
    /\ pc = "running"
    /\ pc' = "returned"
    /\ result' = [kind |-> "per_tree_results", value |-> per_tree_results]
    /\ UNCHANGED <<header_parsed, schema, per_tree_results, line, nread>>
    /\ UNCHANGED genvars

ParseFixedGen ==
    /\ tree = SimpleTree
    /\ translation_dict = EmptyDict
    /\ method = "multistate"
    /\ analysis_method = "ml"
    /\ comments = TRUE
    /\ single_rate = FALSE
    /\ gen = [state |-> "idle", error |-> NoError, lines |-> <<>>]

ParseSpecInit == ParseFixedGen /\ ParseInit

ParseNext == SkipLine \/ ParseHeader \/ ReduceRow \/ EndOfInput

SpecParse == ParseSpecInit /\ [][ParseNext]_vars

----------------------------------------------------------------------------
(* Reading a script *)

\* the tips of a tree: the nodes without children, the root excepted
TipSet(t) == {n \in Nodes(t) : n # 1 /\ \A m \in Nodes(t) : t.parent[m] # n}

IsAddMRCA(l) == l # <<>> /\ l[1] = "AddMRCA"

IsComment(l) == l # <<>> /\ l[1] = "#"

AddMRCALines(ls) == SelectSeq(ls, IsAddMRCA)

\* the label and the arguments of an AddMRCA line
LabelOf(l) == l[3]

ArgsOf(l) ==
    SelectSeq(SubSeq(l, 5, Len(l)), LAMBDA tok : tok # " " /\ tok # NL)

\* the AddMRCA lines of a script that carry the label of tip n
LinesFor(ls, t, n) ==
    SelectSeq(AddMRCALines(ls), LAMBDA l : LabelOf(l) = "parent_of_" \o t.name[n])

\* as many AddMRCA lines as tips, and for every tip as many lines with its
\* label as there are tips of its name
OneCommandPerTip(ls, t) ==
    /\ Len(AddMRCALines(ls)) = Cardinality(TipSet(t))
    /\ \A n \in TipSet(t) :
          Len(LinesFor(ls, t, n)) =
             Cardinality({m \in TipSet(t) : t.name[m] = t.name[n]})

\* the whole script as one text
ScriptText(ls) == Flatten(ls)

HasBlankLine(txt) ==
    \/ txt # <<>> /\ txt[1] = NL
    \/ \E i \in 1..(Len(txt) - 1) : txt[i] = NL /\ txt[i + 1] = NL

OnlyTipChildren(t, n) == \A m \in Range(Children(t, n)) : isTip(t, m)

----------------------------------------------------------------------------
(* Claims on the script generator (specification SpecGen) *)

C2_SiblingsIncludeTip ==
    gen.state = "returned" =>
        /\ \A n \in TipSet(tree) :
              OnlyTipChildren(tree, tree.parent[n]) =>
                 /\ LinesFor(gen.lines, tree, n) # <<>>
                 /\ \A k \in DOMAIN LinesFor(gen.lines, tree, n) :
                       ArgsOf(LinesFor(gen.lines, tree, n)[k]) =
                          TranslateAll(translation_dict,
                              NamesOf(tree, Children(tree, tree.parent[n])))
        /\ tree = SimpleTree /\ translation_dict = EmptyDict =>
              ArgsOf(LinesFor(gen.lines, tree, 4)[1]) = <<"A", "B">>
        /\ tree = PolytomyTree /\ translation_dict = EmptyDict =>
              ArgsOf(LinesFor(gen.lines, tree, 2)[1]) = <<"A", "B", "B_prime">>

C2_Witness ==
    /\ gen.state = "returned"
    /\ tree = PolytomyTree
    /\ translation_dict = EmptyDict
    /\ ArgsOf(LinesFor(gen.lines, tree, 2)[1]) = <<"A", "B", "B_prime">>

\* C2 as stated: the list holds the parent's other children only: [B] for
\* tip A of ((A,B)E,(C,D)F)root, [B, B_prime] for tip A of (A,B,B_prime)E.
C2_SiblingsExcludeTip ==
    gen.state = "returned" =>
        /\ \A n \in TipSet(tree) :
              OnlyTipChildren(tree, tree.parent[n]) =>
                 /\ LinesFor(gen.lines, tree, n) # <<>>
                 /\ \A k \in DOMAIN LinesFor(gen.lines, tree, n) :
                       ArgsOf(LinesFor(gen.lines, tree, n)[k]) =
                          TranslateAll(translation_dict,
                              NamesOf(tree,
                                  SelectSeq(Children(tree, tree.parent[n]),
                                            LAMBDA m : m # n)))
        /\ tree = SimpleTree /\ translation_dict = EmptyDict =>
              ArgsOf(LinesFor(gen.lines, tree, 4)[1]) = <<"B">>
        /\ tree = PolytomyTree /\ translation_dict = EmptyDict =>
              ArgsOf(LinesFor(gen.lines, tree, 2)[1]) = <<"B", "B_prime">>

\* C3: every element of a returned script is one line that ends with
\* exactly one newline, and the script has no blank line.
C3_OneNewlinePerElement ==
    gen.state = "returned" =>
        /\ \A k \in DOMAIN gen.lines :
              /\ Count(gen.lines[k], NL) = 1
              /\ gen.lines[k][Len(gen.lines[k])] = NL
        /\ ~HasBlankLine(ScriptText(gen.lines))

\* C4: with a method outside the six supported names or an analysis method
\* outside {ml, mcmc} the call raises and returns no line; with supported
\* values of both it raises neither of these two errors.
C4_UnsupportedRaises ==
    gen.state # "idle" =>
        /\ (method \notin Methods \/ analysis_method \notin AnalysisMethods) =>
              /\ gen.state = "raised"
              /\ gen.lines = <<>>
              /\ gen.error \in {"method not supported",
                                "analysis method not supported"}
        /\ (method \in Methods /\ analysis_method \in AnalysisMethods) =>
              gen.error \notin {"method not supported",
                                "analysis method not supported"}

C4_Witness ==
    /\ gen.state = "raised"
    /\ method \notin Methods
    /\ comments
    /\ gen.lines = <<>>

\* C5: a script produced with comments=False has no line beginning with
\* '#', and its lines are the non-comment lines, in order, of the script
\* produced from the same arguments with comments=True.
C5_NoCommentsWhenDisabled ==
    (gen.state = "returned" /\ ~comments) =>
        /\ \A k \in DOMAIN gen.lines : ~IsComment(gen.lines[k])
        /\ gen.lines =
              SelectSeq(make_bayestraits_script(tree, translation_dict, method,
                            analysis_method, TRUE, single_rate).lines,
                        LAMBDA l : ~IsComment(l))

\* the text of a script element without its line ends
Content(l) == SelectSeq(l, LAMBDA tok : tok # NL)

\* the elements of a script that do not begin with '#', line ends removed
NonCommentLines(ls) ==
    LET nc == SelectSeq(ls, LAMBDA l : ~IsComment(l))
    IN  [k \in 1..Len(nc) |-> Content(nc[k])]

\* the menu digits as the claim lists them
MenuDigitOfMethod(m) ==
    CASE m = "multistate" -> "1"
      [] m = "discrete_independent" -> "2"
      [] m = "discrete_dependent" -> "3"
      [] m = "continuous_random_walk" -> "4"
      [] m = "continuous_directional" -> "5"
      [] m = "continuous_regression" -> "6"
      [] OTHER -> "no digit"

MenuDigitOfAnalysis(a) ==
    CASE a = "ml" -> "1"
      [] a = "mcmc" -> "2"
      [] OTHER -> "no digit"

\* nc: the non-comment lines; tips: the tips in traversal order; r: the
\* number of RestrictAll lines expected
LinesInOrder(ls, nc, t, tips, m, a, r) ==
    /\ Len(nc) = 3 + r + Len(tips)
    /\ nc[1] = <<MenuDigitOfMethod(m)>>
    /\ nc[2] = <<MenuDigitOfAnalysis(a)>>
    /\ r = 1 => nc[3] = <<"RestrictAll q01">>
    /\ Count(nc, <<"RestrictAll q01">>) = r
    /\ \A k \in DOMAIN tips :
          /\ IsAddMRCA(nc[2 + r + k])
          /\ LabelOf(nc[2 + r + k]) = "parent_of_" \o t.name[tips[k]]
    /\ nc[Len(nc)] = <<"run">>
    /\ Content(ls[Len(ls)]) = <<"run">>

\* C11: the elements of a returned script that are not comments are, in
\* this order: the menu digit of the method, the menu digit of the
\* analysis method, 'RestrictAll q01' exactly when single_rate is set,
\* one AddMRCA line per tip in the tip traversal order of the tree, and
\* 'run', which is also the last element of the script.
C11_LinesInOrder ==
    gen.state = "returned" =>
        LinesInOrder(gen.lines, NonCommentLines(gen.lines), tree,
                     iterTips(tree, 1), method, analysis_method,
                     IF single_rate THEN 1 ELSE 0)

\* a script with comments, the rate restriction and at least three tips
\* whose traversal order differs from their order of creation
C11_Witness ==
    /\ gen.state = "returned"
    /\ single_rate
    /\ comments
    /\ method = "continuous_regression"
    /\ analysis_method = "mcmc"
    /\ Len(AddMRCALines(gen.lines)) >= 3
    /\ \E i, j \in DOMAIN iterTips(tree, 1) :
          i < j /\ iterTips(tree, 1)[i] > iterTips(tree, 1)[j]
    /\ NonCommentLines(gen.lines)[3] = <<"RestrictAll q01">>

\* the names one entry of a child group contributes
Contribution(t, e) ==
    IF Children(t, e) = <<>> THEN <<t.name[e]>>
    ELSE NamesOf(t, Leaves(t, e))

\* the names collected for a tip: the contributions of the entries of the
\* child groups of its parent, in encounter order, nothing removed
Collected(t, tip) ==
    LET entries == Flatten(childGroups(t, t.parent[tip]))
    IN  Flatten([k \in 1..Len(entries) |-> Contribution(t, entries[k])])

\* a collected list after translation: the table value of a key, written
\* out, and any other name as it is
Translated(d, names) ==
    [k \in 1..Len(names) |->
        IF names[k] \in DOMAIN d THEN ToString(d[names[k]]) ELSE names[k]]

ArgumentLists(ls, t, d, tips) ==
    /\ Len(AddMRCALines(ls)) = Len(tips)
    /\ \A k \in DOMAIN tips :
          /\ ArgsOf(AddMRCALines(ls)[k]) = Translated(d, Collected(t, tips[k]))
          /\ d = EmptyDict => ArgsOf(AddMRCALines(ls)[k]) = Collected(t, tips[k])

\* C12: the arguments of the AddMRCA line of a tip are the names collected
\* from the entries of the child groups of its parent, in order: the name
\* of an entry that is a tip, the names of all tips beneath an entry that
\* is an internal node, repeated names kept; every name that is a key of
\* the translation table is replaced by its value and every other name is
\* kept (with an empty table the arguments are the tip names).  The call
\* raises "No sibling names found!" exactly when the list of some tip is
\* empty.
C12_ArgumentLists ==
    (gen.state # "idle" /\ method \in Methods
                        /\ analysis_method \in AnalysisMethods) =>
        /\ gen.state = "raised" <=>
              \E n \in Range(iterTips(tree, 1)) : Collected(tree, n) = <<>>
        /\ gen.state = "raised" => gen.error = "No sibling names found!"
        /\ gen.state = "returned" =>
              ArgumentLists(gen.lines, tree, translation_dict, iterTips(tree, 1))
        /\ (gen.state = "returned" /\ translation_dict = EmptyDict) =>
              /\ tree = DuplicateNameTree =>
                    ArgsOf(AddMRCALines(gen.lines)[1]) = <<"A", "A", "B">>
              /\ tree.parent = <<0, 1, 1, 3, 3>> =>
                    ArgsOf(AddMRCALines(gen.lines)[1]) = <<"E", "A", "B">>

\* the tip E of (E,(A,B)F)root with a table that knows E only: the key is
\* replaced, the leaf set of the internal sibling passes through
C12_Witness ==
    /\ gen.state = "returned"
    /\ tree.parent = <<0, 1, 1, 3, 3>>
    /\ translation_dict = PartialDict(tree)
    /\ DOMAIN translation_dict = {"E"}
    /\ ArgsOf(AddMRCALines(gen.lines)[1]) = <<"0", "A", "B">>


----------------------------------------------------------------------------
(* Reading an output table *)

\* the tab-separated cells of a table line, its last token left out
Cells(l) == SplitOn(SubSeq(l, 1, Len(l) - 1), TAB)

\* the cell of (node, character) in a table
CallCell(table, node, character) ==
    LET row == CHOOSE i \in 2..Len(table) : Cells(table[i])[1] = <<node>>
        col == CHOOSE j \in 2..Len(Cells(table[1])) :
                   Cells(table[1])[j] = <<ToString(character)>>
    IN  Cells(table[row])[col]

\* the probability the data row gives for (node, character, state)
ProbIn(row, node, character, state) ==
    FloatOf(Text(row[field_mapping[FieldKey(node, character, state)] + 1]))

StatesOf(character) == Range(states_by_character[character])

\* state w is the call of (node, character): it is maximal, and first in
\* sorted order among the maximal states
IsWinner(row, node, character, w) ==
    \A st \in StatesOf(character) :
        /\ ProbIn(row, node, character, st) <= ProbIn(row, node, character, w)
        /\ ProbIn(row, node, character, st) = ProbIn(row, node, character, w)
              => ~StrLess(st, w)

HasPositive(row, node, character) ==
    \E st \in StatesOf(character) : ProbIn(row, node, character, st) > 0

\* a header field that is not of the form node-text(int)-text(state)
HasParens(part) ==
    \E i, j \in DOMAIN part : i < j /\ part[i] = "(" /\ part[j] = ")"

IsMalformedField(field) ==
    /\ field # <<"Tree No">>
    /\ field # <<"Lh">>
    /\ ~(field # <<>> /\ field[1] = "q")
    /\ Strip(field) # <<>>
    /\ \/ Len(SplitOn(field, "-")) # 3
       \/ ~HasParens(SplitOn(field, "-")[2])
       \/ ~HasParens(SplitOn(field, "-")[3])

ReadsLine == nread' = nread + 1

----------------------------------------------------------------------------
(* Claims on the parser (specification SpecParse) *)

C7_MalformedFieldRaises ==
    [][(/\ ~header_parsed
        /\ ReadsLine
        /\ StartsWithHeader(line')
        /\ \E i \in DOMAIN line' : IsMalformedField(line'[i]))
       => (pc' = "raised" /\ ~header_parsed')]_vars

C9_HeaderParsedOnce ==
    /\ [](nread = 0 => ~header_parsed)
    /\ [][/\ (~header_parsed /\ ReadsLine /\ ~StartsWithHeader(line'))
             => UNCHANGED <<pc, header_parsed, schema, per_tree_results, result>>
          /\ (~header_parsed /\ ReadsLine /\ StartsWithHeader(line'))
             => (header_parsed' \/ pc' = "raised")
          /\ header_parsed => (header_parsed' /\ UNCHANGED schema)
          /\ (header_parsed /\ ReadsLine /\ ~IsBlank(line'))
             => (pc' # "running" /\ result'.kind \in {"table", "error"})]_vars

\* a line with the header prefix, read after the header, fails as a data row
C9_Witness ==
    /\ header_parsed
    /\ all_nodes # <<>>
    /\ StartsWithHeader(line)
    /\ nread >= 2
    /\ pc = "raised"
    /\ result = ErrorResult("ValueError")

\* C10: the first non-blank line after the header ends the call; a returned
\* table is the reduction of that line, and nothing is read after a result.
C10_ReturnsAfterFirstRow ==
    /\ [](result.kind = "table" =>
             /\ pc = "returned"
             /\ header_parsed
             /\ ~IsBlank(line)
             /\ result.lines =
                   TableLines(MakeTable(line, field_mapping, all_nodes,
                                        all_characters,
                                        states_by_character).output_lines))
    /\ [][/\ pc = "running"
          /\ result = NoResult
          /\ (header_parsed /\ ReadsLine /\ ~IsBlank(line')) => pc' # "running"]_vars

\* a table returned while the input could hold further lines
C10_Witness ==
    /\ pc = "returned"
    /\ result.kind = "table"
    /\ nread < MaxLines
    /\ Len(result.lines) >= 2

====
